---- MODULE Spec2Model ----
(***************************************************************************)
(* Model of utility/serial.cpp of the Ardusat SDK: the ArdusatSerial       *)
(* facade over the hardware endpoint (Serial) and the software endpoint    *)
(* (_soft_serial), and the XBee baud negotiator (_enter_xbee_cmd_mode,     *)
(* set_xbee_baud_rate).                                                    *)
(*                                                                         *)
(* Every call on an endpoint and every delay() is appended to trace, the   *)
(* log of the facade call in progress (or of the last one, once pc is      *)
(* "idle").  The straight-line handlers are one action each.  The          *)
(* negotiator reads the endpoint (available(), read()) between its writes, *)
(* so it is a sequence of steps, one per value it reads, and pc holds its  *)
(* position.                                                               *)
(***************************************************************************)
EXTENDS Integers, Sequences, FiniteSets, TLC

VARIABLES
    mode,         \* ArdusatSerial::_mode
    soft_serial,  \* ArdusatSerial::_soft_serial: "valid" (points to the object
                  \* the constructor made) or, never assigned, what the storage
                  \* held: "NULL" or "garbage"
    construction, \* the constructor that ran and the mode passed to it
    released,     \* what the destructor deleted
    hwRx,         \* bytes received and not yet read on Serial
    swRx,         \* bytes received and not yet read on *_soft_serial
    hw,           \* state of the hardware endpoint Serial
    sw,           \* state of the software endpoint *_soft_serial
    call,         \* the facade call in progress, or the last one, and its
                  \* argument arg (the baud rate, or the byte of write); op is
                  \* "receive" when a byte arrived since
    trace,        \* endpoint calls and delays of that call, in program order
    pc,           \* position in the negotiator; "idle" outside it
    speed,        \* the parameter speed of _enter_xbee_cmd_mode (its own copy)
    i,            \* the loop variable i of _enter_xbee_cmd_mode
    ret,          \* value returned by _enter_xbee_cmd_mode
    result        \* value the last call of write returned; 0 once another
                  \* call, which returns nothing or returns the res of its
                  \* entry in trace, has started

vars == <<mode, soft_serial, construction, released, hw, sw, hwRx, swRx, call, trace, pc,
          speed, i, ret, result>>

\* ---------------------------------------------------------------- bounds

\* available() answers 0..MaxAvail
MaxAvail == 1
\* a loop of the negotiator takes another pass only while the log of the call
\* is shorter than MaxTrace (the longest log of the code has 44 entries, and
\* no pass starts beyond the 34th)
MaxTrace == 48
\* an endpoint holds at most MaxPending received bytes between calls
MaxPending == 1

\* ------------------------------------------------------------- constants

SERIAL_MODE_HARDWARE == "SERIAL_MODE_HARDWARE"
SERIAL_MODE_SOFTWARE == "SERIAL_MODE_SOFTWARE"
SERIAL_MODE_HARDWARE_AND_SOFTWARE == "SERIAL_MODE_HARDWARE_AND_SOFTWARE"
Modes == {SERIAL_MODE_HARDWARE, SERIAL_MODE_SOFTWARE, SERIAL_MODE_HARDWARE_AND_SOFTWARE}

no_software_params_err_msg == "Uh oh, you specified a software serial mode but didn't specify transmit/recieve pins! Halting program..."
xbee_cmd_mode == "+++"
xbee_cmd_baud == "ATBD "
xbee_cmd_write == "ATWR"
xbee_cmd_close == "ATCN"
xbee_baud_success == "Set XBEE baud rate to "

bt_cmd_mode == "$$$"
bt_bad_baud_err1 == " isn't a supported bluetooth baud rate."
bt_bad_baud_err2 == "Supported baud rates are:"
bt_bad_baud_err3 == "1200 2400 4800 9600 19200 38400 57600"

\* the candidates in ascending order
rates_ascending == <<9600, 19200, 38400, 57600, 115200>>

\* unsigned long rates[] of _enter_xbee_cmd_mode
rates == <<9600, 57600, 115200, 19200, 38400>>

\* delay(1200) of the negotiator, delay(100) of beginBluetooth
XbeeDelay == 1200
BtDelay == 100
\* Serial.begin(9600): the BlueSMiRF ships at 9600
BtDefaultBaud == 9600

\* ---------------------------------------------------------------- inputs

\* baud rates a caller passes: the eight rates the XBee knows and one other
BaudInputs == {1200, 2400, 4800, 9600, 19200, 38400, 57600, 115200, 12345}
\* bytes a caller writes
ByteInputs == {0, 65}
\* what an endpoint's write(b) returns
WriteResults == {0, 1}
\* what available() returns
AvailResults == 0..MaxAvail
\* what read() returns: nothing (-1), 'O', the byte 0xFF
ReadResults == {-1, 79, 255}

\* ------------------------------------------------------------- the trace

\* one call on endpoint ep ("hw", "sw"), or a delay (ep "none"):
\* op(txt) or op(num), which returned res
E(ep, op, txt, num, res) == [ep |-> ep, op |-> op, txt |-> txt, num |-> num, res |-> res]

EBegin(ep, baud) == E(ep, "begin", "", baud, 0)
EEnd(ep) == E(ep, "end", "", 0, 0)
EPrint(ep, s) == E(ep, "print", s, 0, 0)
EPrintln(ep, s) == E(ep, "println", s, 0, 0)
EPrintNum(ep, n) == E(ep, "printNum", "", n, 0)
EPrintlnNum(ep, n) == E(ep, "printlnNum", "", n, 0)
EDelay(ms) == E("none", "delay", "", ms, 0)
EAvailable(ep, r) == E(ep, "available", "", 0, r)
ERead(ep, r) == E(ep, "read", "", 0, r)
EWrite(ep, b, r) == E(ep, "write", "", b, r)

Closed == [open |-> FALSE, baud |-> 0]

\* the state of endpoint ep after the calls ops, from state s: the last
\* begin or end on ep decides
RECURSIVE EndpointAfter(_, _, _)
EndpointAfter(s, ep, ops) ==
    IF ops = <<>> THEN s
    ELSE LET e == Head(ops)
             s1 == IF e.ep = ep /\ e.op = "begin" THEN [open |-> TRUE, baud |-> e.num]
                   ELSE IF e.ep = ep /\ e.op = "end" THEN Closed
                   ELSE s
         IN EndpointAfter(s1, ep, Tail(ops))

\* the number of unread bytes of endpoint ep after the calls ops, from n:
\* end() drops them, available() tells how many there are, a read() that
\* returns a byte takes one and a read() that returns -1 found none
RECURSIVE RxAfter(_, _, _)
RxAfter(n, ep, ops) ==
    IF ops = <<>> THEN n
    ELSE LET e == Head(ops)
             n1 == IF e.ep # ep THEN n
                   ELSE IF e.op = "end" THEN 0
                   ELSE IF e.op = "available" THEN e.res
                   ELSE IF e.op = "read" THEN (IF e.res = -1 \/ n = 0 THEN 0 ELSE n - 1)
                   ELSE n
         IN RxAfter(n1, ep, Tail(ops))

\* ------------------------------------------------------------ the facade

\* the hardware endpoint used in every mode
UsesHardware_always(m) == TRUE

\* the test of send_to_serial, begin and write for the hardware endpoint
UsesHardware(m) == m = SERIAL_MODE_HARDWARE \/ m = SERIAL_MODE_HARDWARE_AND_SOFTWARE

\* the test of begin and return_serial_function for the software endpoint
UsesSoftware(m) == m = SERIAL_MODE_SOFTWARE \/ m = SERIAL_MODE_HARDWARE_AND_SOFTWARE

\* ArdusatSerial(mode): mode is ignored, nothing is printed, and
\* _soft_serial is never assigned
Construct1(m) ==
    /\ construction = [args |-> 1, mode |-> m]
    /\ mode = SERIAL_MODE_HARDWARE
    /\ soft_serial \in {"NULL", "garbage"}

\* ArdusatSerial(mode, rx, tx, inverse): _soft_serial is assigned in the
\* software modes only
Construct4(m) ==
    /\ construction = [args |-> 4, mode |-> m]
    /\ mode = m
    /\ IF UsesSoftware(m) THEN soft_serial = "valid" ELSE soft_serial \in {"NULL", "garbage"}

Init ==
    /\ \E m \in Modes : Construct1(m) \/ Construct4(m)
    /\ released = "nothing"
    /\ hw = Closed
    /\ sw = Closed
    /\ hwRx = 0
    /\ swRx = 0
    /\ call = [op |-> "construct", arg |-> 0, flag |-> FALSE]
    /\ trace = <<>>
    /\ pc = "idle"
    /\ speed = 0
    /\ i = 0
    /\ ret = 0
    /\ result = 0

\* the object has not been destroyed: the destructor is the last call
Alive == call.op # "destroy"

\* a handler that runs to its end in one step, having made the calls ops
Finish(c, ops) ==
    /\ call' = c
    /\ trace' = ops
    /\ hw' = EndpointAfter(hw, "hw", ops)
    /\ sw' = EndpointAfter(sw, "sw", ops)
    /\ hwRx' = RxAfter(hwRx, "hw", ops)
    /\ swRx' = RxAfter(swRx, "sw", ops)
    /\ pc' = "idle"
    /\ speed' = 0
    /\ i' = 0
    /\ ret' = 0

\* begin, lines 94-96
BeginHardOps(m, baud) == IF UsesHardware(m) THEN <<EBegin("hw", baud)>> ELSE <<>>

\* the software endpoint closed and not reopened
BeginSoftOps_closed(baud) == <<EEnd("sw")>>

\* begin, lines 102-103
BeginSoftOps(baud) == <<EEnd("sw"), EBegin("sw", baud)>>

\* _enter_xbee_cmd_mode up to its first available(), lines 234-239
ProbeTargetOps(s) ==
    <<EEnd("sw"), EDelay(XbeeDelay), EBegin("sw", s), EPrint("sw", xbee_cmd_mode),
      EDelay(XbeeDelay)>>

\* begin(baud, false), and begin(baud, true) where no software endpoint is used
Begin ==
    /\ pc = "idle" /\ Alive
    /\ \E baud \in BaudInputs, setXbeeSpeed \in BOOLEAN :
         /\ ~(UsesSoftware(mode) /\ setXbeeSpeed)
         /\ Finish([op |-> "begin", arg |-> baud, flag |-> setXbeeSpeed],
                   BeginHardOps(mode, baud)
                     \o (IF UsesSoftware(mode) THEN BeginSoftOps(baud) ELSE <<>>))
    /\ result' = 0
    /\ UNCHANGED <<mode, soft_serial, construction, released>>

\* begin(baud, true) with the software endpoint in use: up to the first
\* available() of _enter_xbee_cmd_mode
BeginRetune ==
    /\ pc = "idle" /\ Alive
    /\ UsesSoftware(mode)
    /\ \E baud \in BaudInputs :
         LET ops == BeginHardOps(mode, baud) \o ProbeTargetOps(baud)
         IN /\ call' = [op |-> "begin", arg |-> baud, flag |-> TRUE]
            /\ trace' = ops
            /\ hw' = EndpointAfter(hw, "hw", ops)
            /\ sw' = EndpointAfter(sw, "sw", ops)
            /\ hwRx' = RxAfter(hwRx, "hw", ops)
            /\ swRx' = RxAfter(swRx, "sw", ops)
            /\ speed' = baud
    /\ pc' = "target_check"
    /\ i' = 0
    /\ ret' = 0
    /\ result' = 0
    /\ UNCHANGED <<mode, soft_serial, construction, released>>

\* ------------------------------------------------- _enter_xbee_cmd_mode

\* number of entries of rates[], the bound of the loop of line 241
NumRates == 5

\* the bound of the drain loop, line 258
DrainLimit == 2

\* buf[i] as an unsigned char
ToChar_unsigned(v) == v % 256

\* buf[i] = serial->read(): the int that read() returns, stored in a char
\* (8 bits, signed on the AVR targets of the SDK)
ToChar(v) == ((v + 128) % 256) - 128

\* the pass without its delay
ProbeOps_nodelay(s) == <<EEnd("sw"), EBegin("sw", s), EPrint("sw", xbee_cmd_mode)>>

\* one pass of the loop body up to its available(), lines 242-245
ProbeOps(s) ==
    <<EEnd("sw"), EBegin("sw", s), EPrint("sw", xbee_cmd_mode), EDelay(XbeeDelay)>>

\* if (i == 4), line 252
Exhausted(k) == k = 4

\* the loop variable not advanced
NextIndex_stuck(k) == k

\* ++i, line 241
NextIndex(k) == k + 1

\* serial->available() taken as a condition, lines 240 and 246: more than
\* one byte asked for
Responded_two(a) == a > 1

\* serial->available() taken as a condition, lines 240 and 246
Responded(a) == a # 0

\* if (!serial->available()), line 240
TargetCheck ==
    /\ pc = "target_check"
    /\ Len(trace) < MaxTrace
    /\ \E a \in AvailResults :
         /\ trace' = Append(trace, EAvailable("sw", a))
         /\ swRx' = RxAfter(swRx, "sw", <<EAvailable("sw", a)>>)
         /\ pc' = IF Responded(a) THEN "drain" ELSE "fallback"
    /\ i' = 0
    /\ UNCHANGED <<mode, soft_serial, construction, released, hw, sw, hwRx, call, speed, ret, result>>

\* one pass of for (i = 0; i < 5; ++i), lines 241-255
FallbackProbe ==
    /\ pc = "fallback"
    /\ Len(trace) < MaxTrace
    /\ IF i < NumRates
       THEN \E a \in AvailResults :
              LET ops == Append(ProbeOps(rates[i + 1]), EAvailable("sw", a))
              IN /\ trace' = trace \o ops
                 /\ sw' = EndpointAfter(sw, "sw", ops)
                 /\ swRx' = RxAfter(swRx, "sw", ops)
                 /\ IF Responded(a)
                    THEN /\ speed' = rates[i + 1]
                         /\ pc' = "drain"
                         /\ i' = 0
                         /\ ret' = ret
                    ELSE IF Exhausted(i)
                    THEN /\ ret' = -1
                         /\ pc' = "returned"
                         /\ UNCHANGED <<speed, i>>
                    ELSE /\ i' = NextIndex(i)
                         /\ UNCHANGED <<speed, pc, ret>>
       ELSE /\ pc' = "drain"
            /\ i' = 0
            /\ UNCHANGED <<trace, sw, swRx, speed, ret>>
    /\ UNCHANGED <<mode, soft_serial, construction, released, hw, hwRx, call, result>>

\* one pass of for (i = 0; i < 2; ++i), lines 258-263, and return 0, line 271
Drain ==
    /\ pc = "drain"
    /\ Len(trace) < MaxTrace
    /\ \E r \in ReadResults :
         /\ trace' = Append(trace, ERead("sw", r))
         /\ swRx' = RxAfter(swRx, "sw", <<ERead("sw", r)>>)
         /\ IF ToChar(r) = -1 \/ ~(i + 1 < DrainLimit)
            THEN /\ pc' = "returned"
                 /\ ret' = 0
                 /\ i' = i
            ELSE /\ i' = i + 1
                 /\ UNCHANGED <<pc, ret>>
    /\ UNCHANGED <<mode, soft_serial, construction, released, hw, sw, hwRx, call, speed, result>>

\* --------------------------------------------------- set_xbee_baud_rate

\* the configure sequence sent whatever _enter_xbee_cmd_mode returned
ShouldConfigure_always(r) == TRUE

\* if (_enter_xbee_cmd_mode(...) == 0), line 279
ShouldConfigure(r) == r = 0

\* speed passed by reference: the caller sees the assignment of line 247
ConfigSpeed_byref(target, discovered) == discovered

\* speed of set_xbee_baud_rate after the call of line 279: the callee got a
\* copy (line 224), so its assignment of line 247 does not reach the caller
ConfigSpeed(target, discovered) == target

\* switch (speed), lines 280-310
RateCode(s) ==
    CASE s = 1200 -> 0
      [] s = 2400 -> 1
      [] s = 4800 -> 2
      [] s = 9600 -> 3
      [] s = 19200 -> 4
      [] s = 38400 -> 5
      [] s = 57600 -> 6
      [] s = 115200 -> 7
      [] OTHER -> 6

\* the sequence without "ATCN" and its delay
ConfigureOps_noclose(s) ==
    <<EPrint("sw", xbee_cmd_baud), EPrintlnNum("sw", RateCode(s)),
      EPrintln("sw", xbee_cmd_write), EDelay(XbeeDelay),
      EPrint("hw", xbee_baud_success), EPrintlnNum("hw", s)>>

\* lines 311-322
ConfigureOps(s) ==
    <<EPrint("sw", xbee_cmd_baud), EPrintlnNum("sw", RateCode(s)),
      EPrintln("sw", xbee_cmd_write), EDelay(XbeeDelay),
      EPrintln("sw", xbee_cmd_close), EDelay(XbeeDelay),
      EPrint("hw", xbee_baud_success), EPrintlnNum("hw", s)>>

\* set_xbee_baud_rate(serial, speed) called on the software endpoint by the
\* application: up to the first available() of _enter_xbee_cmd_mode
SetXbeeBaudRate ==
    /\ pc = "idle" /\ Alive
    /\ soft_serial = "valid"
    /\ \E baud \in BaudInputs :
         LET ops == ProbeTargetOps(baud)
         IN /\ call' = [op |-> "set_xbee_baud_rate", arg |-> baud, flag |-> TRUE]
            /\ trace' = ops
            /\ sw' = EndpointAfter(sw, "sw", ops)
            /\ swRx' = RxAfter(swRx, "sw", ops)
            /\ speed' = baud
    /\ pc' = "target_check"
    /\ i' = 0
    /\ ret' = 0
    /\ result' = 0
    /\ UNCHANGED <<mode, soft_serial, construction, released, hw, hwRx>>

\* set_xbee_baud_rate after _enter_xbee_cmd_mode returned, lines 279-323,
\* and, within begin, the rest of begin, lines 102-103
Configure ==
    /\ pc = "returned"
    /\ LET ops == (IF ShouldConfigure(ret)
                   THEN ConfigureOps(ConfigSpeed(call.arg, speed)) ELSE <<>>)
                  \o (IF call.op = "begin" THEN BeginSoftOps(call.arg) ELSE <<>>)
       IN /\ trace' = trace \o ops
          /\ hw' = EndpointAfter(hw, "hw", ops)
          /\ sw' = EndpointAfter(sw, "sw", ops)
          /\ hwRx' = RxAfter(hwRx, "hw", ops)
          /\ swRx' = RxAfter(swRx, "sw", ops)
    /\ pc' = "idle"
    /\ UNCHANGED <<mode, soft_serial, construction, released, call, speed, i, ret, result>>

\* ------------------------------------------------------- beginBluetooth

\* 115200 accepted as well
valid_baud_115200(baud) == baud \in {1200, 2400, 4800, 9600, 19200, 38400, 57600, 115200}

\* switch (baud), lines 129-138: valid_baud
valid_baud(baud) == baud \in {1200, 2400, 4800, 9600, 19200, 38400, 57600}

\* the command strings spelled with the full rate
baud_cmd_plain(baud) ==
    CASE baud = 1200 -> "U,1200,N"
      [] baud = 2400 -> "U,2400,N"
      [] baud = 4800 -> "U,4800,N"
      [] baud = 9600 -> "U,9600,N"
      [] baud = 19200 -> "U,19200,N"
      [] baud = 38400 -> "U,38400,N"
      [] baud = 57600 -> "U,57600,N"
      [] OTHER -> "unset"

\* switch (baud), lines 129-138: baud_cmd (left unset by the default case)
baud_cmd(baud) ==
    CASE baud = 1200 -> "U,1200,N"
      [] baud = 2400 -> "U,2400,N"
      [] baud = 4800 -> "U,4800,N"
      [] baud = 9600 -> "U,9600,N"
      [] baud = 19200 -> "U,192K,N"
      [] baud = 38400 -> "U,384K,N"
      [] baud = 57600 -> "U,576K,N"
      [] OTHER -> "unset"

\* command mode entered for every rate
NeedsCmdMode_always(baud) == TRUE

\* if (baud != 9600), lines 142 and 152
NeedsCmdMode(baud) == baud # 9600

\* the hardware endpoint set up whatever the mode
BtHardOps_anymode(m, baud) ==
    (IF NeedsCmdMode(baud)
     THEN <<EBegin("hw", BtDefaultBaud), EPrint("hw", bt_cmd_mode), EDelay(BtDelay),
            EPrintln("hw", baud_cmd(baud))>>
     ELSE <<>>)
    \o <<EBegin("hw", baud)>>

\* lines 141-149
BtHardOps(m, baud) ==
    IF m = SERIAL_MODE_HARDWARE
    THEN (IF NeedsCmdMode(baud)
          THEN <<EBegin("hw", BtDefaultBaud), EPrint("hw", bt_cmd_mode), EDelay(BtDelay),
                 EPrintln("hw", baud_cmd(baud))>>
          ELSE <<>>)
         \o <<EBegin("hw", baud)>>
    ELSE <<>>

\* lines 151-161
BtSoftOps(m, baud) ==
    IF UsesSoftware(m)
    THEN (IF NeedsCmdMode(baud)
          THEN <<EEnd("sw"), EBegin("sw", BtDefaultBaud), EPrint("sw", bt_cmd_mode),
                 EDelay(BtDelay), EPrintln("sw", baud_cmd(baud))>>
          ELSE <<>>)
         \o <<EEnd("sw"), EBegin("sw", baud)>>
    ELSE <<>>

\* lines 163-165
BtBothOps(m, baud) ==
    IF m = SERIAL_MODE_HARDWARE_AND_SOFTWARE THEN <<EBegin("hw", baud)>> ELSE <<>>

\* lines 167-174
BtBadBaudOps(baud) ==
    <<EBegin("hw", BtDefaultBaud), EPrintNum("hw", baud), EPrintln("hw", bt_bad_baud_err1),
      EPrintln("hw", bt_bad_baud_err2), EPrintln("hw", bt_bad_baud_err3)>>

BeginBluetooth ==
    /\ pc = "idle" /\ Alive
    /\ \E baud \in BaudInputs :
         Finish([op |-> "beginBluetooth", arg |-> baud, flag |-> FALSE],
                IF valid_baud(baud)
                THEN BtHardOps(mode, baud) \o BtSoftOps(mode, baud) \o BtBothOps(mode, baud)
                ELSE BtBadBaudOps(baud))
    /\ result' = 0
    /\ UNCHANGED <<mode, soft_serial, construction, released>>

\* ---------------------------------------------------- end, flush, write

\* send_to_serial(function), lines 34-40
send_to_serial(m, p, op) ==
    (IF UsesHardware(m) THEN <<E("hw", op, "", 0, 0)>> ELSE <<>>)
    \o (IF p # "NULL" /\ UsesSoftware(m) THEN <<E("sw", op, "", 0, 0)>> ELSE <<>>)

End ==
    /\ pc = "idle" /\ Alive
    /\ Finish([op |-> "end", arg |-> 0, flag |-> FALSE],
              send_to_serial(mode, soft_serial, "end"))
    /\ result' = 0
    /\ UNCHANGED <<mode, soft_serial, construction, released>>

Flush ==
    /\ pc = "idle" /\ Alive
    /\ Finish([op |-> "flush", arg |-> 0, flag |-> FALSE],
              send_to_serial(mode, soft_serial, "flush"))
    /\ result' = 0
    /\ UNCHANGED <<mode, soft_serial, construction, released>>

\* a & b on size_t values below 2^w
RECURSIVE BitAndW(_, _, _)
BitAndW(a, b, w) ==
    IF w = 0 THEN 0
    ELSE (IF a % 2 = 1 /\ b % 2 = 1 THEN 1 ELSE 0) + 2 * BitAndW(a \div 2, b \div 2, w - 1)

\* a | b on size_t values below 2^w
RECURSIVE BitOrW(_, _, _)
BitOrW(a, b, w) ==
    IF w = 0 THEN 0
    ELSE (IF a % 2 = 1 \/ b % 2 = 1 THEN 1 ELSE 0) + 2 * BitOrW(a \div 2, b \div 2, w - 1)

\* ret | x
BitOr(a, b) == BitOrW(a, b, 8)

\* ret & x, lines 208 and 212
BitAnd(a, b) == BitAndW(a, b, 8)

\* the software endpoint is written first, lines 206-209, then the hardware
\* endpoint, lines 211-213; rs and rh are what their write(b) return
WriteOps(m, p, b, rs, rh) ==
    (IF p # "NULL" /\ UsesSoftware(m) THEN <<EWrite("sw", b, rs)>> ELSE <<>>)
    \o (IF UsesHardware(m) THEN <<EWrite("hw", b, rh)>> ELSE <<>>)

\* the value write returns, lines 204-215
WriteRet(m, p, rs, rh) ==
    LET r1 == IF p # "NULL" /\ UsesSoftware(m) THEN BitAnd(1, rs) ELSE 1
    IN IF UsesHardware(m) THEN BitAnd(r1, rh) ELSE r1

Write ==
    /\ pc = "idle" /\ Alive
    /\ \E b \in ByteInputs, rs \in WriteResults, rh \in WriteResults :
         /\ Finish([op |-> "write", arg |-> b, flag |-> FALSE],
                   WriteOps(mode, soft_serial, b, rs, rh))
         /\ result' = WriteRet(mode, soft_serial, rs, rh)
    /\ UNCHANGED <<mode, soft_serial, construction, released>>

\* --------------------------------------------- peek, read, available
\* each returns what the call on the endpoint returned: the res of its entry

\* return_serial_function with the hardware endpoint preferred in the mode
\* with both
RoutedEndpoint_hardware(m) == IF m = SERIAL_MODE_SOFTWARE THEN "sw" ELSE "hw"

\* return_serial_function(fxn), lines 42-47: the endpoint that answers
RoutedEndpoint(m) ==
    IF m = SERIAL_MODE_SOFTWARE \/ m = SERIAL_MODE_HARDWARE_AND_SOFTWARE THEN "sw" ELSE "hw"

\* the unread bytes of endpoint ep
Pending(ep) == IF ep = "hw" THEN hwRx ELSE swRx

\* what read() and peek() of endpoint ep can return: a byte if one is
\* unread, -1 if not
NextByte(ep) == IF Pending(ep) > 0 THEN ReadResults \ {-1} ELSE {-1}

\* a byte arrives on an open endpoint, between two calls; the log starts anew
Receive ==
    /\ pc = "idle" /\ Alive
    /\ \/ /\ hw.open /\ hwRx < MaxPending
          /\ hwRx' = hwRx + 1
          /\ UNCHANGED swRx
       \/ /\ sw.open /\ swRx < MaxPending
          /\ swRx' = swRx + 1
          /\ UNCHANGED hwRx
    /\ call' = [op |-> "receive", arg |-> 0, flag |-> FALSE]
    /\ trace' = <<>>
    /\ speed' = 0
    /\ i' = 0
    /\ ret' = 0
    /\ result' = 0
    /\ UNCHANGED <<mode, soft_serial, construction, released, hw, sw, pc>>

Peek ==
    /\ pc = "idle" /\ Alive
    /\ \E r \in NextByte(RoutedEndpoint(mode)) :
         /\ Finish([op |-> "peek", arg |-> 0, flag |-> FALSE],
                   <<E(RoutedEndpoint(mode), "peek", "", 0, r)>>)
    /\ result' = 0
    /\ UNCHANGED <<mode, soft_serial, construction, released>>

Read ==
    /\ pc = "idle" /\ Alive
    /\ \E r \in NextByte(RoutedEndpoint(mode)) :
         /\ Finish([op |-> "read", arg |-> 0, flag |-> FALSE],
                   <<ERead(RoutedEndpoint(mode), r)>>)
    /\ result' = 0
    /\ UNCHANGED <<mode, soft_serial, construction, released>>

Available ==
    /\ pc = "idle" /\ Alive
    /\ Finish([op |-> "available", arg |-> 0, flag |-> FALSE],
              <<EAvailable(RoutedEndpoint(mode), Pending(RoutedEndpoint(mode)))>>)
    /\ result' = 0
    /\ UNCHANGED <<mode, soft_serial, construction, released>>

\* ------------------------------------------------------ ~ArdusatSerial

\* if (_soft_serial != NULL) delete _soft_serial, lines 77-79: what is deleted
Deleted(p) == IF p # "NULL" THEN p ELSE "nothing"

Destroy ==
    /\ pc = "idle" /\ Alive
    /\ released' = Deleted(soft_serial)
    /\ pc' = "idle"
    /\ call' = [op |-> "destroy", arg |-> 0, flag |-> FALSE]
    /\ trace' = <<>>
    /\ speed' = 0
    /\ i' = 0
    /\ ret' = 0
    /\ result' = 0
    /\ UNCHANGED <<mode, soft_serial, construction, hw, sw, hwRx, swRx>>

Next ==
    \/ Receive
    \/ Peek
    \/ Read
    \/ Available
    \/ Destroy
    \/ Begin
    \/ BeginRetune
    \/ SetXbeeBaudRate
    \/ TargetCheck
    \/ FallbackProbe
    \/ Drain
    \/ Configure
    \/ BeginBluetooth
    \/ End
    \/ Flush
    \/ Write

Spec == Init /\ [][Next]_vars

\* the negotiator runs without interruption: each of its steps is taken
NegotiatorStep == TargetCheck \/ FallbackProbe \/ Drain \/ Configure

FairSpec == Spec /\ WF_vars(NegotiatorStep)

\* ------------------------------------------------ reading the call's log

\* the call is, or ran, the negotiator
IsNegotiation ==
    \/ call.op = "set_xbee_baud_rate"
    \/ call.op = "begin" /\ call.flag /\ mode # SERIAL_MODE_HARDWARE

\* the probes of a log: for each available(), the speed the software
\* endpoint was last opened at and what available() answered
RECURSIVE Probes(_, _)
Probes(tr, last) ==
    IF tr = <<>> THEN <<>>
    ELSE LET e == Head(tr)
         IN IF e.ep = "sw" /\ e.op = "begin" THEN Probes(Tail(tr), e.num)
            ELSE IF e.ep = "sw" /\ e.op = "available"
            THEN <<[speed |-> last, res |-> e.res]>> \o Probes(Tail(tr), last)
            ELSE Probes(Tail(tr), last)

ProbeLog == Probes(trace, 0)

AllProbesSilent == \A k \in DOMAIN ProbeLog : ProbeLog[k].res = 0

IsPrint(e) == e.op \in {"print", "println", "printNum", "printlnNum"}

\* some entry of the log sends the text s to endpoint ep
HasText(ep, s) == \E k \in DOMAIN trace : trace[k].ep = ep /\ IsPrint(trace[k]) /\ trace[k].txt = s

\* the entries of the log on endpoint ep with operation op
Entries(ep, op) == {k \in DOMAIN trace : trace[k].ep = ep /\ trace[k].op = op}

\* the endpoints the mode selects
ActiveEndpoints ==
    CASE mode = SERIAL_MODE_HARDWARE -> {"hw"}
      [] mode = SERIAL_MODE_SOFTWARE -> {"sw"}
      [] mode = SERIAL_MODE_HARDWARE_AND_SOFTWARE -> {"hw", "sw"}

EndpointState(ep) == IF ep = "hw" THEN hw ELSE sw

OpenAt(baud) == [open |-> TRUE, baud |-> baud]

\* the configure sequence with rate code c is in the log, in order
ConfiguredWith(c) ==
    \E k \in DOMAIN trace :
        /\ k + 4 <= Len(trace)
        /\ trace[k] = EPrint("sw", "ATBD ")
        /\ trace[k + 1] = EPrintlnNum("sw", c)
        /\ trace[k + 2] = EPrintln("sw", "ATWR")
        /\ trace[k + 4] = EPrintln("sw", "ATCN")

\* ------------------------------------------------------------------ C1
\* C1: when every probe of a negotiation (the target and the five fallback
\* candidates) saw no available bytes, _enter_xbee_cmd_mode returns -1 after
\* six probes, and set_xbee_baud_rate writes no "ATBD", "ATWR" or "ATCN" to
\* the software endpoint and prints nothing on the hardware endpoint.
ClaimC1 ==
    (IsNegotiation /\ AllProbesSilent) =>
        /\ ~HasText("sw", "ATBD ") /\ ~HasText("sw", "ATWR") /\ ~HasText("sw", "ATCN")
        /\ \A k \in DOMAIN trace : ~(trace[k].ep = "hw" /\ IsPrint(trace[k]))
        /\ pc \in {"returned", "idle"} => (ret = -1 /\ Len(ProbeLog) = 6)

WitnessC1 ==
    /\ IsNegotiation /\ pc = "idle" /\ ret = -1
    /\ Len(ProbeLog) = 6 /\ AllProbesSilent

\* ------------------------------------------------------------------ C2
\* the rate codes as the claim lists them
CodeOfTarget(t) ==
    IF t = 1200 THEN 0 ELSE IF t = 2400 THEN 1 ELSE IF t = 4800 THEN 2
    ELSE IF t = 9600 THEN 3 ELSE IF t = 19200 THEN 4 ELSE IF t = 38400 THEN 5
    ELSE IF t = 57600 THEN 6 ELSE IF t = 115200 THEN 7 ELSE 6

\* C2: whatever speed the module answered at, the number written after
\* "ATBD " is the code of the requested target rate (1200->0 ... 115200->7,
\* any other target->6).
ClaimC2 ==
    \A k \in DOMAIN trace :
        trace[k] = EPrint("sw", "ATBD ") =>
            /\ k < Len(trace)
            /\ trace[k + 1] = EPrintlnNum("sw", CodeOfTarget(call.arg))

WitnessC2 ==
    /\ pc = "idle" /\ HasText("sw", "ATBD ")
    /\ speed # call.arg /\ CodeOfTarget(speed) # CodeOfTarget(call.arg)

\* ------------------------------------------------------------------ C3
\* a finished negotiation with target 9600 in which the endpoint answered
\* the probes at 19200 and no others
OnlyAt19200 ==
    /\ IsNegotiation /\ pc = "idle" /\ call.arg = 9600
    /\ \A k \in DOMAIN ProbeLog : (ProbeLog[k].res > 0) <=> (ProbeLog[k].speed = 19200)

ProbedSpeeds == [k \in DOMAIN ProbeLog |-> ProbeLog[k].speed]

\* C3 as amended: with target 9600 and an endpoint that answers only at
\* 19200, the probes are 9600, 9600, 57600, 115200, 19200, the negotiation
\* succeeds at 19200, and the configure sequence carries code 3, the code of
\* the target 9600.
ClaimC3 ==
    OnlyAt19200 =>
        /\ ProbedSpeeds = <<9600, 9600, 57600, 115200, 19200>>
        /\ speed = 19200 /\ ret = 0
        /\ ConfiguredWith(3)

\* C3 as claimed: the configure sequence carries code 4.
OriginalC3 ==
    OnlyAt19200 =>
        /\ ProbedSpeeds = <<9600, 9600, 57600, 115200, 19200>>
        /\ speed = 19200 /\ ret = 0
        /\ ConfiguredWith(4)

WitnessC3 == OnlyAt19200 /\ speed = 19200 /\ HasText("sw", "ATCN")

\* ------------------------------------------------------------------ C4
\* C4: a negotiation makes at most six probes, the target first and then
\* the candidates of rates[] in order, each once; it has returned 0 after a
\* probe that saw bytes or -1 after six that saw none; and every call that
\* started comes to its end.
ClaimC4 ==
    /\ [](IsNegotiation =>
            /\ Len(ProbeLog) <= 6
            /\ \A k \in DOMAIN ProbeLog :
                 /\ k = 1 => ProbeLog[k].speed = call.arg
                 /\ k > 1 => ProbeLog[k].speed = <<9600, 57600, 115200, 19200, 38400>>[k - 1]
                 /\ k < Len(ProbeLog) => ProbeLog[k].res = 0
            /\ pc \in {"returned", "idle"} =>
                 \/ ret = 0 /\ ProbeLog[Len(ProbeLog)].res > 0
                 \/ ret = -1 /\ Len(ProbeLog) = 6 /\ AllProbesSilent)
    /\ (pc # "idle") ~> (pc = "idle")

WitnessC4 ==
    /\ IsNegotiation /\ pc = "idle" /\ ret = 0
    /\ Len(ProbeLog) = 6 /\ ProbeLog[6].res > 0

\* ------------------------------------------------------------------ C5
\* C5: after begin(baud, false) the log holds one begin(baud) for each
\* endpoint of the mode and no call on the other endpoint, and the
\* endpoints of the mode are open at baud.
ClaimC5 ==
    (call.op = "begin" /\ ~call.flag /\ pc = "idle") =>
        /\ \A k \in DOMAIN trace : trace[k].ep \in ActiveEndpoints
        /\ \A ep \in {"hw", "sw"} :
             IF ep \in ActiveEndpoints
             THEN /\ Cardinality(Entries(ep, "begin")) = 1
                  /\ \A k \in Entries(ep, "begin") : trace[k].num = call.arg
                  /\ EndpointState(ep) = OpenAt(call.arg)
             ELSE Entries(ep, "begin") = {}

WitnessC5 ==
    /\ call.op = "begin" /\ ~call.flag /\ pc = "idle"
    /\ mode = SERIAL_MODE_SOFTWARE /\ sw = OpenAt(call.arg) /\ ~hw.open

\* ------------------------------------------------------------------ C6
\* C6: when begin(baud, true) has returned in a mode with the software
\* endpoint, the negotiator ran, the last two calls of the log are the close
\* and the reopen at baud of the software endpoint, so every probe and
\* configure command precedes them, and the software endpoint is open at
\* baud whether the negotiator returned 0 or -1; in hardware-only mode the
\* log holds the begin of the hardware endpoint and nothing else.
ClaimC6 ==
    (call.op = "begin" /\ call.flag /\ pc = "idle") =>
        IF mode = SERIAL_MODE_HARDWARE
        THEN trace = <<EBegin("hw", call.arg)>> /\ ProbeLog = <<>>
        ELSE /\ Len(ProbeLog) >= 1
             /\ ret = 0 <=> ConfiguredWith(CodeOfTarget(call.arg))
             /\ Len(trace) >= 2
             /\ trace[Len(trace) - 1] = EEnd("sw")
             /\ trace[Len(trace)] = EBegin("sw", call.arg)
             /\ sw = OpenAt(call.arg)

WitnessC6 ==
    /\ call.op = "begin" /\ call.flag /\ pc = "idle" /\ mode # SERIAL_MODE_HARDWARE
    /\ ret = 0 /\ HasText("sw", "ATCN") /\ speed # call.arg /\ sw = OpenAt(call.arg)

\* ------------------------------------------------------------------ C7
\* C7: write(b) writes b once to each endpoint of the mode, also when the
\* first write returned 0, and to no other endpoint; it returns 1 if every
\* one of these writes returned 1 and 0 if one of them returned 0.
ClaimC7 ==
    (call.op = "write" /\ pc = "idle") =>
        /\ {trace[k].ep : k \in DOMAIN trace} = ActiveEndpoints
        /\ Len(trace) = Cardinality(ActiveEndpoints)
        /\ \A k \in DOMAIN trace : trace[k].op = "write" /\ trace[k].num = call.arg
        /\ result = IF \A k \in DOMAIN trace : trace[k].res = 1 THEN 1 ELSE 0

WitnessC7 ==
    /\ call.op = "write" /\ pc = "idle" /\ mode = SERIAL_MODE_HARDWARE_AND_SOFTWARE
    /\ Len(trace) = 2 /\ trace[1].res = 0 /\ trace[2].res = 1 /\ result = 0

\* ------------------------------------------------- C8, C9, C10
BtWhitelist == {1200, 2400, 4800, 9600, 19200, 38400, 57600}

IsBluetooth == call.op = "beginBluetooth" /\ pc = "idle"

\* C8: beginBluetooth with a baud outside the whitelist opens the hardware
\* endpoint at 9600 and prints on it the value, the unsupported-rate text
\* and the list of rates, in every mode; it makes no call on the software
\* endpoint and writes no "$$$" and no rate-change command.
ClaimC8 ==
    (IsBluetooth /\ call.arg \notin BtWhitelist) =>
        /\ trace = <<EBegin("hw", 9600), EPrintNum("hw", call.arg),
                     EPrintln("hw", " isn't a supported bluetooth baud rate."),
                     EPrintln("hw", "Supported baud rates are:"),
                     EPrintln("hw", "1200 2400 4800 9600 19200 38400 57600")>>
        /\ hw = OpenAt(9600)

WitnessC8 ==
    /\ IsBluetooth /\ call.arg = 115200 /\ mode = SERIAL_MODE_SOFTWARE
    /\ hw = OpenAt(9600) /\ Len(trace) = 5

\* the rate-change commands as the claim lists them
BtCommandOf(baud) ==
    IF baud = 1200 THEN "U,1200,N" ELSE IF baud = 2400 THEN "U,2400,N"
    ELSE IF baud = 4800 THEN "U,4800,N" ELSE IF baud = 19200 THEN "U,192K,N"
    ELSE IF baud = 38400 THEN "U,384K,N" ELSE IF baud = 57600 THEN "U,576K,N"
    ELSE "none"

\* the endpoint the adapter is on
AdapterEndpoint == IF mode = SERIAL_MODE_HARDWARE THEN "hw" ELSE "sw"

\* the delays and the calls on the adapter's endpoint other than end()
AdapterLog ==
    SelectSeq(trace, LAMBDA e : e.op = "delay" \/ (e.ep = AdapterEndpoint /\ e.op # "end"))

\* C9: beginBluetooth with a whitelisted baud other than 9600 does, on the
\* adapter's endpoint and in this order: open at 9600, write "$$$", delay,
\* write the command of baud, reopen at baud; on return every endpoint of the
\* mode is open at baud.
ClaimC9 ==
    (IsBluetooth /\ call.arg \in BtWhitelist \ {9600}) =>
        /\ Len(AdapterLog) = 5
        /\ AdapterLog[1] = EBegin(AdapterEndpoint, 9600)
        /\ AdapterLog[2] = EPrint(AdapterEndpoint, "$$$")
        /\ AdapterLog[3].op = "delay"
        /\ AdapterLog[4] = EPrintln(AdapterEndpoint, BtCommandOf(call.arg))
        /\ AdapterLog[5] = EBegin(AdapterEndpoint, call.arg)
        /\ \A ep \in ActiveEndpoints : EndpointState(ep) = OpenAt(call.arg)

WitnessC9 ==
    /\ IsBluetooth /\ call.arg = 19200 /\ mode = SERIAL_MODE_HARDWARE_AND_SOFTWARE
    /\ HasText("sw", "U,192K,N") /\ sw = OpenAt(19200) /\ hw = OpenAt(19200)

\* C10: a step that is beginBluetooth(9600) logs nothing but end() and
\* begin(9600) on the endpoints of the mode (no "$$$", no command), leaves
\* them open at 9600, and, taken right after another beginBluetooth(9600),
\* leaves both endpoints as they were.
ClaimC10 ==
    [][(call'.op = "beginBluetooth" /\ call'.arg = 9600 /\ pc' = "idle") =>
          /\ \A k \in DOMAIN trace' :
               /\ trace'[k].ep \in ActiveEndpoints
               /\ trace'[k] \in {EEnd(trace'[k].ep), EBegin(trace'[k].ep, 9600)}
          /\ \A ep \in ActiveEndpoints :
               \E k \in DOMAIN trace' : trace'[k] = EBegin(ep, 9600)
          /\ \A ep \in ActiveEndpoints :
               (IF ep = "hw" THEN hw' ELSE sw') = OpenAt(9600)
          /\ (call.op = "beginBluetooth" /\ call.arg = 9600) => (hw' = hw /\ sw' = sw)
      ]_vars

WitnessC10 ==
    /\ IsBluetooth /\ call.arg = 9600 /\ mode = SERIAL_MODE_HARDWARE_AND_SOFTWARE
    /\ trace = <<EEnd("sw"), EBegin("sw", 9600), EBegin("hw", 9600)>>
    /\ hw = OpenAt(9600) /\ sw = OpenAt(9600)

\* ----------------------------------------------------------------- C11
\* the endpoint the claim routes peek, read and available to
ClaimedRoute ==
    IF mode \in {SERIAL_MODE_SOFTWARE, SERIAL_MODE_HARDWARE_AND_SOFTWARE} THEN "sw" ELSE "hw"

\* C11: a step that is peek(), read() or available() makes one call, that
\* call on one endpoint: the software endpoint in the software-only mode and
\* the mode with both, the hardware endpoint otherwise; the unread bytes of
\* the other endpoint stay as they were, and of the endpoint called only a
\* read() that returned a byte takes one.
ClaimC11 ==
    [][call'.op \in {"peek", "read", "available"} =>
          /\ Len(trace') = 1
          /\ trace'[1].ep = ClaimedRoute
          /\ trace'[1].op = call'.op
          /\ IF ClaimedRoute = "sw"
             THEN /\ hwRx' = hwRx
                  /\ swRx' = IF call'.op = "read" /\ swRx > 0 THEN swRx - 1 ELSE swRx
             ELSE /\ swRx' = swRx
                  /\ hwRx' = IF call'.op = "read" /\ hwRx > 0 THEN hwRx - 1 ELSE hwRx
      ]_vars

WitnessC11 ==
    /\ call.op = "read" /\ mode = SERIAL_MODE_HARDWARE_AND_SOFTWARE
    /\ trace = <<ERead("sw", 79)>> /\ hwRx > 0 /\ swRx = 0

\* ----------------------------------------------------------------- C12
\* C12 as claimed: the facade holds a software endpoint exactly in the
\* software-only mode and the mode with both, and the destructor deletes
\* that endpoint and nothing that no constructor assigned.
OriginalC12 ==
    /\ (soft_serial = "valid") <=>
         (mode \in {SERIAL_MODE_SOFTWARE, SERIAL_MODE_HARDWARE_AND_SOFTWARE})
    /\ released = IF ~Alive /\ soft_serial = "valid" THEN "valid" ELSE "nothing"

\* ----------------------------------------------------------------- C13
\* C13 as claimed: after ArdusatSerial(mode) with a software mode, the
\* message has been printed or the program has halted.
OriginalC13 ==
    (construction.args = 1 /\ construction.mode # SERIAL_MODE_HARDWARE /\ call.op = "construct") =>
        \/ HasText("hw", no_software_params_err_msg)
        \/ pc = "halted"
        \/ mode = construction.mode

\* ----------------------------------------------------------------- C14
\* C14 as claimed: when begin(baud, true) or set_xbee_baud_rate has returned
\* after six probes that saw nothing, its caller holds a negative value.
OriginalC14 ==
    (IsNegotiation /\ pc = "idle" /\ Len(ProbeLog) = 6 /\ AllProbesSilent) => result < 0

\* ----------------------------------------------------------------- C15
\* some probe of the log saw bytes
SomeProbeResponded == \E k \in DOMAIN ProbeLog : ProbeLog[k].res > 0

\* C15: a fallback candidate is probed only after the target probe saw
\* nothing; the candidates are probed in the order 9600, 57600, 115200,
\* 19200, 38400; and once an available() has answered more than 0, the
\* endpoint is sent no "+++", asked no available(), and opened only by the
\* reopen that ends begin.
ClaimC15 ==
    IsNegotiation =>
        /\ Len(ProbeLog) > 1 => ProbeLog[1].res = 0
        /\ \A k \in DOMAIN ProbeLog :
             k > 1 => /\ k <= 6
                      /\ ProbeLog[k].speed = <<9600, 57600, 115200, 19200, 38400>>[k - 1]
        /\ \A j \in DOMAIN trace, k \in DOMAIN trace :
             (j < k /\ trace[j].op = "available" /\ trace[j].res > 0) =>
                 /\ trace[k] # EPrint("sw", "+++")
                 /\ trace[k].op # "available"
                 /\ (trace[k].ep = "sw" /\ trace[k].op = "begin") =>
                        (call.op = "begin" /\ k = Len(trace) /\ pc = "idle")

WitnessC15 ==
    /\ IsNegotiation /\ pc = "idle" /\ Len(ProbeLog) = 3
    /\ ProbeLog[3].speed = 57600 /\ ProbeLog[3].res > 0

\* ----------------------------------------------------------------- C16
\* the configure sequence for target t as the claim gives it
ClaimedSequence(t) ==
    <<EPrint("sw", "ATBD "), EPrintlnNum("sw", CodeOfTarget(t)), EPrintln("sw", "ATWR"),
      EDelay(1200), EPrintln("sw", "ATCN"), EDelay(1200),
      EPrint("hw", "Set XBEE baud rate to "), EPrintlnNum("hw", t)>>

\* the log after its last read(), less the close and reopen that end begin
AfterDrain ==
    LET reads == {k \in DOMAIN trace : trace[k].op = "read"}
        last == CHOOSE k \in reads : \A j \in reads : j <= k
        stop == IF call.op = "begin" THEN Len(trace) - 2 ELSE Len(trace)
    IN IF reads = {} THEN <<>> ELSE SubSeq(trace, last + 1, stop)

\* an entry of the configure sequence or of the confirmation
IsConfigureEntry(e) ==
    \/ e.ep = "sw" /\ IsPrint(e) /\ (e.txt \in {"ATBD ", "ATWR", "ATCN"} \/ e.op = "printlnNum")
    \/ e.ep = "hw" /\ IsPrint(e)

\* C16: when the negotiator has finished and a probe saw bytes, what
\* follows the drain is "ATBD ", the rate code, "ATWR", delay(1200), "ATCN",
\* delay(1200), then the confirmation with the new speed on the hardware
\* endpoint; at any other point of a negotiation, and when no probe saw
\* bytes, none of these is in the log.
ClaimC16 ==
    IsNegotiation =>
        IF pc = "idle" /\ SomeProbeResponded
        THEN AfterDrain = ClaimedSequence(call.arg)
        ELSE \A k \in DOMAIN trace : ~IsConfigureEntry(trace[k])

WitnessC16 ==
    /\ call.op = "set_xbee_baud_rate" /\ pc = "idle" /\ mode = SERIAL_MODE_SOFTWARE
    /\ SomeProbeResponded /\ HasText("hw", "Set XBEE baud rate to ")

\* ----------------------------------------------------------------- C17
\* C17: every available() of the negotiator is preceded, in this order and
\* with nothing else in between, by end(), begin() (the probe at the target
\* speed has a delay(1200) between the two), the write of "+++" and
\* delay(1200); so the check follows the delay of its own probe, and a
\* probe opens the endpoint only after the check of the one before.
ClaimC17 ==
    IsNegotiation =>
        \A k \in DOMAIN trace :
            trace[k].op = "available" =>
                /\ k > 5
                /\ trace[k - 1] = EDelay(1200)
                /\ trace[k - 2] = EPrint("sw", "+++")
                /\ trace[k - 3].ep = "sw" /\ trace[k - 3].op = "begin"
                /\ \/ trace[k - 4] = EEnd("sw") /\ trace[k - 5].op = "available"
                   \/ /\ trace[k - 4] = EDelay(1200) /\ trace[k - 5] = EEnd("sw")
                      /\ \A j \in 1..(k - 1) : trace[j].op # "available"

WitnessC17 ==
    /\ IsNegotiation /\ pc = "drain" /\ Len(ProbeLog) = 2 /\ ProbeLog[2].speed = 9600

\* ----------------------------------------------------------------- C18
\* C18: the negotiator reads only after a probe saw bytes, at most twice,
\* and not again after a read() that returned -1; having read, it returns 0
\* whatever the bytes were.
ClaimC18 ==
    IsNegotiation =>
        LET reads == Entries("sw", "read")
        IN /\ Cardinality(reads) <= 2
           /\ \A k \in reads : trace[k].res = -1 => \A j \in reads : j <= k
           /\ reads # {} => SomeProbeResponded
           /\ (pc \in {"returned", "idle"} /\ SomeProbeResponded) => (ret = 0 /\ reads # {})

WitnessC18 ==
    /\ IsNegotiation /\ pc = "idle" /\ ret = 0
    /\ \E j \in DOMAIN trace : /\ j < Len(trace)
                               /\ trace[j] = ERead("sw", 79)
                               /\ trace[j + 1] = ERead("sw", 255)

\* ----------------------------------------------------------------- C19
\* the rate a code stands for
RateOfCode(c) == <<1200, 2400, 4800, 9600, 19200, 38400, 57600, 115200>>[c + 1]

\* C19 as claimed: after begin(baud, true) with a probe that saw bytes, the
\* rate of the code written after "ATBD " is the rate the software endpoint
\* is reopened at and the rate printed in the confirmation.
OriginalC19 ==
    (call.op = "begin" /\ call.flag /\ mode # SERIAL_MODE_HARDWARE /\ pc = "idle" /\ ret = 0) =>
        \E c \in 0..7 :
            /\ ConfiguredWith(c)
            /\ sw = OpenAt(RateOfCode(c))
            /\ \E k \in DOMAIN trace : trace[k] = EPrintlnNum("hw", RateOfCode(c))

\* ----------------------------------------------------------------- C20
\* C20 as claimed: in the software-only mode no call opens, closes, writes
\* or prints on the hardware endpoint.
OriginalC20 ==
    mode = SERIAL_MODE_SOFTWARE =>
        /\ hw = Closed
        /\ \A k \in DOMAIN trace : trace[k].ep # "hw"

\* C20 as amended: in the software-only mode the hardware endpoint is
\* touched by two calls only: beginBluetooth with a baud outside the
\* whitelist, which opens it at 9600 and prints the diagnostic on it, and a
\* negotiation in which a probe saw bytes, which prints the confirmation on
\* it; no call closes it or opens it at another rate.
ClaimC20 ==
    mode = SERIAL_MODE_SOFTWARE =>
        /\ hw \in {Closed, OpenAt(9600)}
        /\ \A k \in DOMAIN trace :
             trace[k].ep = "hw" =>
                 \/ call.op = "beginBluetooth" /\ call.arg \notin BtWhitelist
                 \/ /\ IsNegotiation /\ pc = "idle" /\ SomeProbeResponded
                    /\ trace[k] \in {EPrint("hw", "Set XBEE baud rate to "),
                                     EPrintlnNum("hw", call.arg)}

WitnessC20 ==
    /\ mode = SERIAL_MODE_SOFTWARE /\ call.op = "begin" /\ call.flag /\ pc = "idle"
    /\ hw = OpenAt(9600) /\ HasText("hw", "Set XBEE baud rate to ")
====
